---- MODULE Spec2Model ----
(***************************************************************************)
(* The strategy-report parser of the stock dashboard: parse_results_dir in *)
(* app.py and in pages/1_结果解析（txt）.py.                                *)
(*                                                                         *)
(* Text is modelled as a sequence of tokens.  A token stands for a fixed   *)
(* piece of text; the regular expressions, strip, split and the `in` test  *)
(* of the source are computed on the token sequence.                       *)
(*                                                                         *)
(* Every report is scanned in two renderings: as plain text and as written *)
(* by a logging formatter, which puts the log prefix before every line.    *)
(* A run is one parser copy scanning one rendering; the runs read the same *)
(* directory in lockstep.                                                  *)
(***************************************************************************)
EXTENDS Integers, Sequences, FiniteSets, TLC

\* Total number of lines read in one parse of the directory.
MaxLines == 8

----------------------------------------------------------------------------
(* Text *)

\* One whitespace character.
SP == " "

\* "2024-01-15 10:30:45,123 - INFO - " as produced by the logging formatter:
\* "TS" is "2024-01-15 10:30:45", "LVL" is "123 - INFO -".
Prefix == <<"TS", ",", "LVL", SP>>

\* str.strip(): remove leading and trailing whitespace.
RECURSIVE LStrip(_)
LStrip(s) == IF s # <<>> /\ Head(s) = SP THEN LStrip(Tail(s)) ELSE s

RECURSIVE RStrip(_)
RStrip(s) ==
    IF s # <<>> /\ s[Len(s)] = SP THEN RStrip(SubSeq(s, 1, Len(s) - 1)) ELSE s

Strip(s) == RStrip(LStrip(s))

\* LOG_PREFIX_RE.sub('', line): the pattern is anchored at the start of the
\* line and ends in \s+, so it needs whitespace after the last dash and
\* swallows all of it.
LOG_PREFIX_RE(line) ==
    IF /\ Len(line) >= 4
       /\ line[1] = "TS" /\ line[2] = "," /\ line[3] = "LVL" /\ line[4] = SP
    THEN LStrip(SubSeq(line, 5, Len(line)))
    ELSE line

\* The first token of line that is in toks, or "" when re.search finds none.
Search(line, toks) ==
    IF \E i \in 1..Len(line) : line[i] \in toks
    THEN line[CHOOSE i \in 1..Len(line) :
                /\ line[i] \in toks
                /\ \A j \in 1..(i - 1) : line[j] \notin toks]
    ELSE ""

\* HEADER_RE: "H_A" is "选股结果 [A]", "H_B" is "==== 选股结果 [ B ] ====".
HeaderTokens == {"H_A", "H_B"}
HEADER_RE(line) == Search(line, HeaderTokens)
\* mh.group("strategy")
HeaderGroup(tok) == IF tok = "H_A" THEN <<"A">> ELSE <<SP, "B", SP>>

\* TRADE_DATE_RE: "D1" is "交易日: 2024-01-15", "D2" is "交易日: 2024-01-16",
\* "DX" is "交易日: 2024-13-45".
DateTokens == {"D1", "D2", "DX"}
TRADE_DATE_RE(line) == Search(line, DateTokens)
\* md.group("date")
DateGroup(tok) ==
    IF tok = "D1" THEN "2024-01-15"
    ELSE IF tok = "D2" THEN "2024-01-16" ELSE "2024-13-45"

\* pd.to_datetime raises on a string that is no calendar date.
ValidDates == {"2024-01-15", "2024-01-16"}

\* COUNT_RE: "N0" is "符合条件股票数: 0", "N2" is "符合条件股票数: 2".
CountTokens == {"N0", "N2"}
COUNT_RE(line) == Search(line, CountTokens)

\* NO_PICK_KEYWORD in line: "NOPICK" is "无符合条件股票".
NO_PICK_KEYWORD(line) == \E i \in 1..Len(line) : line[i] = "NOPICK"

HasComma(line) == \E i \in 1..Len(line) : line[i] = ","

\* line.split(","): the pieces between the commas.
RECURSIVE Split(_)
Split(line) ==
    IF ~HasComma(line) THEN <<line>>
    ELSE LET i == CHOOSE k \in 1..Len(line) :
                     /\ line[k] = ","
                     /\ \A j \in 1..(k - 1) : line[j] # ","
         IN <<SubSeq(line, 1, i - 1)>> \o Split(SubSeq(line, i + 1, Len(line)))

\* [c.strip() for c in pieces if c.strip()]
RECURSIVE StripNonEmpty(_)
StripNonEmpty(pieces) ==
    IF pieces = <<>> THEN <<>>
    ELSE LET c == Strip(Head(pieces))
         IN (IF c # <<>> THEN <<c>> ELSE <<>>) \o StripNonEmpty(Tail(pieces))

\* The codes of a pick line.
Codes(line) ==
    IF HasComma(line) THEN StripNonEmpty(Split(line))
    ELSE IF line # <<>> THEN <<line>> ELSE <<>>

----------------------------------------------------------------------------
(* The report lines and the runs *)

\* The lines a report is made of, before the formatter.
Bodies ==
    { <<>>, <<SP>>,
      <<"H_A">>, <<"H_B">>,
      <<"D1">>, <<"D2">>, <<"DX">>,
      <<"N0">>, <<"N2">>,
      <<"NOPICK">>,
      <<"000001", ",", SP, "600000">>, <<"600000">> }

Runs == {"app", "page", "app_log", "page_log"}
\* The parser copy of a run.
CopyOf(r) == IF r \in {"app", "app_log"} THEN "app" ELSE "page"
\* The runs that scan the formatter's rendering.
Logged(r) == r \in {"app_log", "page_log"}
\* The line of the file a run reads for a report line.
RawOf(r, body) == IF Logged(r) THEN Prefix \o body ELSE body

----------------------------------------------------------------------------
(* The scan of one line *)

\* None for a strategy (a name is a token sequence) and for a trade date.
NoStrategy == <<"None">>
NoDate == "None"

\* `if cur_strategy`: neither None nor the empty string.
Truthy(s) == s # NoStrategy /\ s # <<>>

\* The state at the start of each file.
FreshState ==
    [cur_strategy |-> NoStrategy, cur_trade_date |-> NoDate,
     expecting_picks |-> FALSE]

\* raw.strip(), and in the results page the removal of the log prefix.
Normalize(copy, raw) ==
    IF copy = "page" THEN Strip(LOG_PREFIX_RE(Strip(raw))) ELSE Strip(raw)

\* The rows appended for the codes of a pick line.
RowsOf(s, codes) ==
    [i \in 1..Len(codes) |->
        [date |-> s.cur_trade_date, strategy |-> s.cur_strategy,
         code |-> codes[i]]]

\* OnHeader with the trade date of the section before left in place.
OnHeaderKeepDate(s, mh) ==
    [s EXCEPT !.cur_strategy = Strip(HeaderGroup(mh)),
              !.expecting_picks = FALSE]

\* OnHeader that takes the bracketed text as it stands, untrimmed.
OnHeaderUntrimmed(s, mh) ==
    [cur_strategy |-> HeaderGroup(mh), cur_trade_date |-> NoDate,
     expecting_picks |-> FALSE]

\* OnHeader that leaves expecting_picks as the section before left it.
OnHeaderKeepExpecting(s, mh) ==
    [s EXCEPT !.cur_strategy = Strip(HeaderGroup(mh)),
              !.cur_trade_date = NoDate]

\* A strategy header: the trimmed name, no trade date, no picks expected.
OnHeader(s, mh) ==
    [cur_strategy |-> Strip(HeaderGroup(mh)), cur_trade_date |-> NoDate,
     expecting_picks |-> FALSE]

\* A trade-date line.
OnTradeDate(s, md) ==
    [s EXCEPT !.cur_trade_date = DateGroup(md), !.expecting_picks = FALSE]

\* OnCount that expects picks only after a count above zero.
OnCountPositive(s, mc) ==
    IF mc = "N0" THEN s ELSE [s EXCEPT !.expecting_picks = TRUE]

\* A count line read with strategy and trade date set; mc is not looked at.
OnCount(s, mc) == [s EXCEPT !.expecting_picks = TRUE]

\* OnNoPick that leaves expecting_picks set.
OnNoPickKeep(s) == s

\* A line with the no-pick marker read while picks are expected.
OnNoPick(s) == [s EXCEPT !.expecting_picks = FALSE]

\* OnPick that goes on expecting picks on the lines that follow.
OnPickKeep(s) == s

\* Any other non-blank line read while picks are expected: the state after
\* its codes are appended.
OnPick(s) == [s EXCEPT !.expecting_picks = FALSE]

\* The body of the loop over the lines of a file: the next scan state and
\* the rows appended, for scan state s and the file's line raw.
ScanLine(copy, s, raw) ==
    LET line == Normalize(copy, raw)
        mh == HEADER_RE(line)
        md == TRADE_DATE_RE(line)
        mc == COUNT_RE(line)
        ready == Truthy(s.cur_strategy) /\ s.cur_trade_date # NoDate
    IN  IF mh # ""
        THEN [st |-> OnHeader(s, mh), new |-> <<>>]
        ELSE IF md # ""
        THEN [st |-> OnTradeDate(s, md), new |-> <<>>]
        ELSE IF mc # "" /\ ready
        THEN [st |-> OnCount(s, mc), new |-> <<>>]
        ELSE IF s.expecting_picks /\ ready
        THEN IF line = <<>>
             THEN [st |-> s, new |-> <<>>]
             ELSE IF NO_PICK_KEYWORD(line)
             THEN [st |-> OnNoPick(s), new |-> <<>>]
             ELSE [st |-> OnPick(s), new |-> RowsOf(s, Codes(line))]
        ELSE [st |-> s, new |-> <<>>]

\* pd.to_datetime(md.group("date")) raises: the line has a trade date that
\* is no calendar date, and no strategy header before it in the line.
Raises(copy, raw) ==
    LET line == Normalize(copy, raw)
    IN  /\ HEADER_RE(line) = ""
        /\ TRADE_DATE_RE(line) # ""
        /\ DateGroup(TRADE_DATE_RE(line)) \notin ValidDates

----------------------------------------------------------------------------
(* The table *)

\* The order of the characters the tokens start with.
TokRank(t) ==
    CASE t = SP -> 0
      [] t = "," -> 1
      [] t = "000001" -> 2
      [] t = "LVL" -> 3
      [] t = "TS" -> 4
      [] t = "600000" -> 5
      [] t = "A" -> 6
      [] t = "B" -> 7
      [] OTHER -> 8

\* String comparison.
RECURSIVE StrLess(_, _)
StrLess(a, b) ==
    IF b = <<>> THEN FALSE
    ELSE IF a = <<>> THEN TRUE
    ELSE IF TokRank(Head(a)) # TokRank(Head(b))
         THEN TokRank(Head(a)) < TokRank(Head(b))
         ELSE StrLess(Tail(a), Tail(b))

\* Timestamp comparison.
DateRank(d) == IF d = "2024-01-15" THEN 1 ELSE IF d = "2024-01-16" THEN 2 ELSE 0
DateLess(a, b) == DateRank(a) < DateRank(b)

\* sort_values(["code", "date", "strategy"]) of app.py and
\* sort_values(["date", "strategy", "code"]) of the results page.
RowLess(copy, x, y) ==
    IF copy = "app"
    THEN \/ StrLess(x.code, y.code)
         \/ x.code = y.code /\ DateLess(x.date, y.date)
         \/ x.code = y.code /\ x.date = y.date
              /\ StrLess(x.strategy, y.strategy)
    ELSE \/ DateLess(x.date, y.date)
         \/ x.date = y.date /\ StrLess(x.strategy, y.strategy)
         \/ x.date = y.date /\ x.strategy = y.strategy
              /\ StrLess(x.code, y.code)

\* DropDuplicates that keeps every row.
DropDuplicatesNone(rs) == rs

\* df.drop_duplicates(): the first of equal rows is kept.
RECURSIVE DropDuplicates(_)
DropDuplicates(rs) ==
    IF rs = <<>> THEN <<>>
    ELSE LET init == SubSeq(rs, 1, Len(rs) - 1)
             last == rs[Len(rs)]
         IN  IF \E i \in 1..Len(init) : init[i] = last
             THEN DropDuplicates(init)
             ELSE Append(DropDuplicates(init), last)

\* The place of row x in the sorted table t: after the rows not greater.
RECURSIVE Insert(_, _, _)
Insert(copy, t, x) ==
    IF t = <<>> THEN <<x>>
    ELSE IF RowLess(copy, x, Head(t)) THEN <<x>> \o t
    ELSE <<Head(t)>> \o Insert(copy, Tail(t), x)

\* SortValues that leaves the rows in the order read.
SortValuesNone(copy, rs) == rs

\* df.sort_values(...)
RECURSIVE SortValues(_, _)
SortValues(copy, rs) ==
    IF rs = <<>> THEN <<>>
    ELSE Insert(copy, SortValues(copy, SubSeq(rs, 1, Len(rs) - 1)), rs[Len(rs)])

\* The end of parse_results_dir: the empty table, or the rows without
\* duplicates, sorted.
Finalize(copy, rs) ==
    IF rs = <<>> THEN <<>> ELSE SortValues(copy, DropDuplicates(rs))

----------------------------------------------------------------------------
(* The directory *)

FileNames == {"20240115.txt", "notadate.txt", "notes.md"}

\* results_dir.glob("*.txt"): the names that end in ".txt".  An existing
\* directory holds a notes file next to the reports.
Glob(d) == {f \in d : f \in {"20240115.txt", "notadate.txt"}}

\* TXT_DATE_RE.match(fp.name)
TXT_DATE_RE(f) == f = "20240115.txt"

\* The order of the paths.
FileRank(f) ==
    CASE f = "20240115.txt" -> 1
      [] f = "notadate.txt" -> 2
      [] OTHER -> 3

\* sorted(...)
RECURSIVE Sorted(_)
Sorted(S) ==
    IF S = {} THEN <<>>
    ELSE LET f == CHOOSE x \in S : \A y \in S : FileRank(x) <= FileRank(y)
         IN <<f>> \o Sorted(S \ {f})

NoFile == "None"

----------------------------------------------------------------------------
(* The parse *)

VARIABLES
    dirExists,  \* results_dir.exists()
    dir,        \* the names of the files in results_dir
    pc,         \* "start", "files", "lines", "done" or "raised"
    todo,       \* the files the loop has still to open
    fp,         \* the file being scanned
    n,          \* the number of lines read so far
    raw,        \* the report line read last
    st,         \* cur_strategy, cur_trade_date and expecting_picks of a run
    rows,       \* rows of a run
    result,     \* the table a run returns
    src,        \* history: for each row of rows, the file it was read from
    hdr,        \* history: the name in the last header line of the file
    tdate,      \* history: the date of the last trade-date line after it
    by          \* history: the count line that had set expecting_picks of
                \* a run when the line raw was read, "" if it was not set

\* The batch job of fetch_kline.py, one entry per stock code.
VARIABLES
    mainpc,     \* main(): "submit", "wait" or "finished"
    fpc,        \* fetch_one of a code: "new", "try", "validate", "to_csv",
                \* "except", "done" or "raised"
    attempt,    \* attempt of fetch_one
    new_df,     \* new_df of fetch_one, "None" outside the try block
    e,          \* the exception in flight, NoExc if there is none
    csv,        \* csv_path: the frames written to it, in order
    nap,        \* the seconds of the last sleep of fetch_one
    calls       \* history: the calls of _get_kline_tushare made

fetchVars == <<mainpc, fpc, attempt, new_df, e, csv, nap, calls>>

vars ==
    <<dirExists, dir, pc, todo, fp, n, raw, st, rows, result, src, hdr,
      tdate, by, mainpc, fpc, attempt, new_df, e, csv, nap, calls>>

\* The codes of stocklist.csv.
StockCodes == {"000001", "600000"}

NoExc == [cls |-> "None", msg |-> <<>>]

\* Before main() has submitted anything.
FetchStart ==
    /\ mainpc = "submit"
    /\ fpc = [c \in StockCodes |-> "new"]
    /\ attempt = [c \in StockCodes |-> 0]
    /\ new_df = [c \in StockCodes |-> "None"]
    /\ e = [c \in StockCodes |-> NoExc]
    /\ csv = [c \in StockCodes |-> <<>>]
    /\ nap = [c \in StockCodes |-> 0]
    /\ calls = [c \in StockCodes |-> 0]

NoLine == <<"None">>

\* The classes of the lines of a report, by the text of the line.
IsBlankLine(l) == \A i \in 1..Len(l) : l[i] = SP
IsHeaderLine(l) == \E i \in 1..Len(l) : l[i] \in HeaderTokens
IsDateLine(l) == ~IsHeaderLine(l) /\ \E i \in 1..Len(l) : l[i] \in DateTokens
IsCountLine(l) ==
    /\ ~IsHeaderLine(l)
    /\ ~IsDateLine(l)
    /\ \E i \in 1..Len(l) : l[i] \in CountTokens
IsNoPickLine(l) ==
    /\ ~IsHeaderLine(l)
    /\ ~IsDateLine(l)
    /\ ~IsCountLine(l)
    /\ \E i \in 1..Len(l) : l[i] = "NOPICK"
\* A line of none of these classes: the codes of a section.
IsCodeLine(l) ==
    /\ ~IsBlankLine(l)
    /\ ~IsHeaderLine(l)
    /\ ~IsDateLine(l)
    /\ ~IsCountLine(l)
    /\ ~IsNoPickLine(l)

\* The count line that has set expecting_picks of run r, "" if it is not set.
Arming(r) ==
    IF ~st[r].expecting_picks THEN ""
    ELSE IF raw # NoLine /\ IsCountLine(raw) THEN COUNT_RE(raw)
    ELSE by[r]

Init ==
    /\ dirExists \in BOOLEAN
    /\ dir \in SUBSET FileNames
    /\ dirExists => "notes.md" \in dir
    /\ ~dirExists => dir = {}
    /\ pc = "start"
    /\ todo = <<>>
    /\ fp = NoFile
    /\ n = 0
    /\ raw = NoLine
    /\ st = [r \in Runs |-> FreshState]
    /\ rows = [r \in Runs |-> <<>>]
    /\ result = [r \in Runs |-> <<>>]
    /\ src = [r \in Runs |-> <<>>]
    /\ hdr = NoStrategy
    /\ tdate = NoDate
    /\ by = [r \in Runs |-> ""]
    /\ FetchStart

\* ReturnMissing without the test: listing the missing directory raises.
ReturnMissingRaise ==
    /\ pc = "start"
    /\ ~dirExists
    /\ pc' = "raised"
    /\ UNCHANGED fetchVars
    /\ UNCHANGED <<dirExists, dir, todo, fp, n, raw, st, rows, result, src,
                   hdr, tdate, by>>

\* `if not results_dir.exists(): return` the empty table.
ReturnMissing ==
    /\ pc = "start"
    /\ ~dirExists
    /\ pc' = "done"
    /\ result' = [r \in Runs |-> <<>>]
    /\ UNCHANGED fetchVars
    /\ UNCHANGED <<dirExists, dir, todo, fp, n, raw, st, rows, src, hdr,
                   tdate, by>>

\* sorted(results_dir.glob("*.txt"))
ListFiles ==
    /\ pc = "start"
    /\ dirExists
    /\ todo' = Sorted(Glob(dir))
    /\ pc' = "files"
    /\ UNCHANGED fetchVars
    /\ UNCHANGED <<dirExists, dir, fp, n, raw, st, rows, result, src, hdr,
                   tdate, by>>

\* The next file of the loop: the scan state starts afresh.
NextFile ==
    /\ pc = "files"
    /\ todo # <<>>
    /\ fp' = Head(todo)
    /\ todo' = Tail(todo)
    /\ st' = [r \in Runs |-> FreshState]
    /\ raw' = NoLine
    /\ hdr' = NoStrategy
    /\ tdate' = NoDate
    /\ by' = [r \in Runs |-> ""]
    /\ pc' = "lines"
    /\ UNCHANGED fetchVars
    /\ UNCHANGED <<dirExists, dir, n, rows, result, src>>

\* One pass of the loop over the lines of the file.
ReadLine ==
    /\ pc = "lines"
    /\ n < MaxLines
    /\ \E body \in Bodies :
        /\ \A r \in Runs : ~Raises(CopyOf(r), RawOf(r, body))
        /\ raw' = body
        /\ st' = [r \in Runs |-> ScanLine(CopyOf(r), st[r], RawOf(r, body)).st]
        /\ rows' = [r \in Runs |->
                      rows[r] \o ScanLine(CopyOf(r), st[r], RawOf(r, body)).new]
        /\ src' = [r \in Runs |->
                      src[r] \o [i \in 1..Len(ScanLine(CopyOf(r), st[r],
                                               RawOf(r, body)).new) |-> fp]]
        /\ hdr' = IF IsHeaderLine(body)
                  THEN Strip(HeaderGroup(HEADER_RE(body)))
                  ELSE hdr
        /\ tdate' = IF IsHeaderLine(body) THEN NoDate
                    ELSE IF IsDateLine(body)
                         THEN DateGroup(TRADE_DATE_RE(body))
                         ELSE tdate
    /\ by' = [r \in Runs |-> Arming(r)]
    /\ n' = n + 1
    /\ UNCHANGED fetchVars
    /\ UNCHANGED <<dirExists, dir, pc, todo, fp, result>>

\* pd.to_datetime raises on the trade date of the line: the parse ends
\* without a table.
RaiseOnDate ==
    /\ pc = "lines"
    /\ n < MaxLines
    /\ \E body \in Bodies :
        /\ \E r \in Runs : Raises(CopyOf(r), RawOf(r, body))
        /\ raw' = body
    /\ by' = [r \in Runs |-> Arming(r)]
    /\ n' = n + 1
    /\ pc' = "raised"
    /\ UNCHANGED fetchVars
    /\ UNCHANGED <<dirExists, dir, todo, fp, st, rows, result, src, hdr,
                   tdate>>

\* The lines of the file are exhausted.
EndFile ==
    /\ pc = "lines"
    /\ pc' = "files"
    /\ fp' = NoFile
    /\ UNCHANGED fetchVars
    /\ UNCHANGED <<dirExists, dir, todo, n, raw, st, rows, result, src, hdr,
                   tdate, by>>

\* After the last file: drop the duplicates, sort and return.
Return ==
    /\ pc = "files"
    /\ todo = <<>>
    /\ result' = [r \in Runs |-> Finalize(CopyOf(r), rows[r])]
    /\ pc' = "done"
    /\ UNCHANGED fetchVars
    /\ UNCHANGED <<dirExists, dir, todo, fp, n, raw, st, rows, src, hdr,
                   tdate, by>>

Next ==
    \/ ReturnMissing
    \/ ListFiles
    \/ NextFile
    \/ ReadLine
    \/ RaiseOnDate
    \/ EndFile
    \/ Return

Spec == Init /\ [][Next]_vars

TypeOK ==
    /\ pc \in {"start", "files", "lines", "done", "raised"}
    /\ n \in 0..MaxLines
    /\ \A r \in Runs : Len(src[r]) = Len(rows[r])
----------------------------------------------------------------------------
(* The batch fetch *)

COOLDOWN_SECS == 600

\* A message is the sequence of its words; str.lower() of a word.
Lower(w) ==
    CASE w = "Max" -> "max"
      [] w = "Too" -> "too"
      [] w = "Many" -> "many"
      [] w = "Requests" -> "requests"
      [] w = "Read" -> "read"
      [] OTHER -> w

\* The Chinese phrases are one word each: "FWPF" is 访问频繁, "QSH" is
\* 请稍后, "CGPL" is 超过频率, "PFFW" is 频繁访问.
BAN_PATTERNS ==
    {<<"FWPF">>, <<"QSH">>, <<"CGPL">>, <<"PFFW">>,
     <<"too", "many", "requests">>, <<"429">>,
     <<"forbidden">>, <<"403">>,
     <<"max", "retries", "exceeded">>}

\* `pat in msg`
Contains(msg, pat) ==
    \E i \in 1..(Len(msg) - Len(pat) + 1) :
        SubSeq(msg, i, i + Len(pat) - 1) = pat

\* _looks_like_ip_ban: a ban pattern occurs in the lowered message.
looks_like_ip_ban(exc) ==
    LET msg == [i \in 1..Len(exc.msg) |-> Lower(exc.msg[i])]
    IN  \E pat \in BAN_PATTERNS : Contains(msg, pat)

\* random.uniform(0.9, 1.2), in tenths.
Jitters == {9, 10, 12}

\* _cool_sleep: max(1, int(base_seconds * jitter)) seconds.
cool_sleep(base_seconds, jitter) ==
    LET sleep_s == (base_seconds * jitter) \div 10
    IN  IF sleep_s < 1 THEN 1 ELSE sleep_s

\* What ts.pro_bar raises: a rate-limit answer of the API ("BQ" is 抱歉,
\* then 访问频繁), a connection
\* error of the HTTP library, a timeout.
ProBarRaises ==
    {[cls |-> "Exception", msg |-> <<"BQ", "FWPF">>],
     [cls |-> "ConnectionError", msg |-> <<"Max", "retries", "exceeded">>],
     [cls |-> "ReadTimeout", msg |-> <<"Read", "timed", "out">>]}

\* What _get_kline_tushare returns: no rows, clean rows, rows with a
\* missing date, rows with a date after today.
Frames == {"empty", "good", "nan_date", "future_date"}

\* validate: the exception it raises for a frame, NoExc if it returns.
\* "MISSING_DATE" is the message 存在缺失日期！, "FUTURE_DATE" the message
\* 数据包含未来日期，可能抓取错误！
validate(df) ==
    IF df = "header_only" THEN NoExc
    ELSE IF df = "nan_date"
         THEN [cls |-> "ValueError", msg |-> <<"MISSING_DATE">>]
    ELSE IF df = "future_date"
         THEN [cls |-> "ValueError", msg |-> <<"FUTURE_DATE">>]
    ELSE NoExc

\* `except Exception`: the classes the clause catches.
Catches(cls) ==
    cls \in {"Exception", "RateLimitError", "ValueError", "ConnectionError",
             "ReadTimeout"}

\* range(1, 4)
AttemptRange == 1..3

\* A loop that runs one attempt more.
ExhaustedLate(a) == a + 1 \notin 1..4

\* The for loop has no value after a.
Exhausted(a) == a + 1 \notin AttemptRange

\* executor.submit(fetch_one, code, ...): the thread of the code starts
\* its first attempt.
Submit(c) ==
    /\ mainpc = "submit"
    /\ fpc[c] = "new"
    /\ fpc' = [fpc EXCEPT ![c] = "try"]
    /\ attempt' = [attempt EXCEPT ![c] = 1]
    /\ mainpc' = IF \A d \in StockCodes \ {c} : fpc[d] # "new"
                 THEN "wait" ELSE "submit"
    /\ UNCHANGED <<new_df, e, csv, nap, calls>>
    /\ UNCHANGED <<dirExists, dir, pc, todo, fp, n, raw, st, rows, result,
                   src, hdr, tdate, by>>

\* new_df = _get_kline_tushare(code, start, end), and the empty frame made
\* a frame of the six columns.
GetKline(c) ==
    /\ fpc[c] = "try"
    /\ calls' = [calls EXCEPT ![c] = @ + 1]
    /\ \/ \E x \in ProBarRaises :
            /\ e' = [e EXCEPT ![c] =
                        IF looks_like_ip_ban(x)
                        THEN [cls |-> "RateLimitError", msg |-> x.msg]
                        ELSE x]
            /\ fpc' = [fpc EXCEPT ![c] = "except"]
            /\ UNCHANGED new_df
       \/ \E f \in Frames :
            /\ new_df' = [new_df EXCEPT ![c] =
                             IF f = "empty" THEN "header_only" ELSE f]
            /\ fpc' = [fpc EXCEPT ![c] = "validate"]
            /\ UNCHANGED e
    /\ UNCHANGED <<mainpc, attempt, csv, nap>>
    /\ UNCHANGED <<dirExists, dir, pc, todo, fp, n, raw, st, rows, result,
                   src, hdr, tdate, by>>

\* new_df = validate(new_df)
Validate(c) ==
    /\ fpc[c] = "validate"
    /\ IF validate(new_df[c]) = NoExc
       THEN /\ fpc' = [fpc EXCEPT ![c] = "to_csv"]
            /\ UNCHANGED <<e, new_df>>
       ELSE /\ e' = [e EXCEPT ![c] = validate(new_df[c])]
            /\ new_df' = [new_df EXCEPT ![c] = "None"]
            /\ fpc' = [fpc EXCEPT ![c] = "except"]
    /\ UNCHANGED <<mainpc, attempt, csv, nap, calls>>
    /\ UNCHANGED <<dirExists, dir, pc, todo, fp, n, raw, st, rows, result,
                   src, hdr, tdate, by>>

\* new_df.to_csv(csv_path, index=False); break
ToCsv(c) ==
    /\ fpc[c] = "to_csv"
    /\ csv' = [csv EXCEPT ![c] = Append(@, new_df[c])]
    /\ new_df' = [new_df EXCEPT ![c] = "None"]
    /\ fpc' = [fpc EXCEPT ![c] = "done"]
    /\ UNCHANGED <<mainpc, attempt, e, nap, calls>>
    /\ UNCHANGED <<dirExists, dir, pc, todo, fp, n, raw, st, rows, result,
                   src, hdr, tdate, by>>

\* The except clause: the cool-down or the short sleep, then the next
\* attempt, or the else clause of the loop after the last one.
Except(c) ==
    /\ fpc[c] = "except"
    /\ IF ~Catches(e[c].cls)
       THEN /\ fpc' = [fpc EXCEPT ![c] = "raised"]
            /\ UNCHANGED <<attempt, e, nap>>
       ELSE /\ \E jitter \in Jitters :
                 nap' = [nap EXCEPT ![c] =
                            IF looks_like_ip_ban(e[c])
                            THEN cool_sleep(COOLDOWN_SECS, jitter)
                            ELSE 15 * attempt[c]]
            /\ e' = [e EXCEPT ![c] = NoExc]
            /\ IF Exhausted(attempt[c])
               THEN /\ fpc' = [fpc EXCEPT ![c] = "done"]
                    /\ UNCHANGED attempt
               ELSE /\ fpc' = [fpc EXCEPT ![c] = "try"]
                    /\ attempt' = [attempt EXCEPT ![c] = @ + 1]
    /\ UNCHANGED <<mainpc, new_df, csv, calls>>
    /\ UNCHANGED <<dirExists, dir, pc, todo, fp, n, raw, st, rows, result,
                   src, hdr, tdate, by>>

\* The loop over as_completed(futures) ends: every future is over, with a
\* result or with an exception nobody asks for.
AllCompleted ==
    /\ mainpc = "wait"
    /\ \A c \in StockCodes : fpc[c] \in {"done", "raised"}
    /\ mainpc' = "finished"
    /\ UNCHANGED <<fpc, attempt, new_df, e, csv, nap, calls>>
    /\ UNCHANGED <<dirExists, dir, pc, todo, fp, n, raw, st, rows, result,
                   src, hdr, tdate, by>>

\* The job runs on its own: no results directory is parsed meanwhile.
FetchInit == Init /\ ~dirExists

FetchNext ==
    \/ \E c \in StockCodes : Submit(c)
    \/ \E c \in StockCodes : GetKline(c)
    \/ \E c \in StockCodes : Validate(c)
    \/ \E c \in StockCodes : ToCsv(c)
    \/ \E c \in StockCodes : Except(c)
    \/ AllCompleted

FetchSpec == FetchInit /\ [][FetchNext]_vars

FetchTypeOK ==
    /\ mainpc \in {"submit", "wait", "finished"}
    /\ \A c \in StockCodes :
        /\ fpc[c] \in {"new", "try", "validate", "to_csv", "except", "done",
                        "raised"}
        /\ attempt[c] \in 0..3
        /\ nap[c] \in 0..720
----------------------------------------------------------------------------
(* The claims *)

\* The rows of a table, as a set.
RowSet(t) == {t[i] : i \in 1..Len(t)}

\* One pass of the loop over the lines has been made and has not raised.
ReadStep == pc = "lines" /\ pc' = "lines" /\ n' = n + 1

\* `ready` of a run: strategy and trade date are set.
Ready(r) == Truthy(st[r].cur_strategy) /\ st[r].cur_trade_date # NoDate

\* Every file the loop opens is named as a report.
OnlyReports == \A f \in Glob(dir) : TXT_DATE_RE(f)

\* C1: the results page returns the same set of records for a directory of
\* plain reports and for the same reports with the log prefix before every
\* line, blank lines included.
PrefixTolerance ==
    (pc = "done" /\ OnlyReports)
        => RowSet(result["page"]) = RowSet(result["page_log"])

\* The runs that scan the plain rendering.
PlainRuns == {"app", "page"}

\* C2: every row of the returned table was read from a file whose name is
\* eight digits followed by ".txt"; any other file contributes no record.
FileDiscovery ==
    pc = "done" =>
        \A r \in PlainRuns : \A x \in RowSet(result[r]) :
            \E i \in 1..Len(rows[r]) :
                rows[r][i] = x /\ TXT_DATE_RE(src[r][i])

\* The key (code, date, strategy).
KeyLess(x, y) ==
    \/ StrLess(x.code, y.code)
    \/ x.code = y.code /\ DateRank(x.date) < DateRank(y.date)
    \/ x.code = y.code /\ x.date = y.date /\ StrLess(x.strategy, y.strategy)

\* C3: the table returned by each parser copy is non-decreasing under the
\* key (code, date, strategy).
SortInvariant ==
    (pc = "done" /\ OnlyReports) =>
        \A r \in PlainRuns : \A i \in 1..(Len(result[r]) - 1) :
            ~KeyLess(result[r][i + 1], result[r][i])

\* C4: every row appended by a line carries the name of the last strategy
\* header read before it in the same file and the date of the last
\* trade-date line read after that header; the scan of a file starts from
\* the fresh state, whatever the file before it has left.
RecordProvenance ==
    [][/\ \A r \in Runs : \A i \in (Len(rows[r]) + 1)..Len(rows'[r]) :
            /\ Truthy(hdr) /\ rows'[r][i].strategy = hdr
            /\ tdate # NoDate /\ rows'[r][i].date = tdate
       /\ (fp' # fp /\ fp' # NoFile) => \A r \in Runs : st'[r] = FreshState
      ]_vars

\* Two strategy sections of one file have each given rows of their own
\* strategy, and a second file is being scanned.
TwoSectionsTagged ==
    /\ fp = "notadate.txt"
    /\ \E i, j \in 1..Len(rows["app"]) :
        /\ src["app"][i] = "20240115.txt" /\ src["app"][j] = "20240115.txt"
        /\ rows["app"][i].strategy = <<"A">>
        /\ rows["app"][j].strategy = <<"B">>
        /\ rows["app"][i].code = <<"000001">>
        /\ rows["app"][j].code = <<"600000">>
        /\ rows["app"][j].code # rows["app"][i].code

\* C5: a no-pick line read while picks are expected appends no row and
\* clears expecting_picks, and while expecting_picks is clear no line but a
\* count line appends a row or sets it.
NoPickSuppression ==
    [][ReadStep =>
        \A r \in Runs :
            /\ (st[r].expecting_picks /\ IsNoPickLine(RawOf(r, raw')))
                 => rows'[r] = rows[r] /\ ~st'[r].expecting_picks
            /\ (~st[r].expecting_picks /\ ~IsCountLine(RawOf(r, raw')))
                 => rows'[r] = rows[r] /\ ~st'[r].expecting_picks
      ]_vars

\* The no-pick line has been read while picks were expected.
NoPickRead ==
    /\ pc = "lines"
    /\ raw = <<"NOPICK">>
    /\ by["page"] # ""
    /\ Ready("page")
    /\ ~st["page"].expecting_picks
    /\ rows["page"] = <<>>

\* C6: the returned table has no two rows equal in date, strategy and code.
DedupInvariant ==
    pc = "done" =>
        \A r \in Runs : \A i, j \in 1..Len(result[r]) :
            i # j => result[r][i] # result[r][j]

\* The same triple has been read from two files, and the table is returned.
DuplicateAcrossFiles ==
    /\ pc = "done"
    /\ \E i, j \in 1..Len(rows["app"]) :
        /\ rows["app"][i] = rows["app"][j]
        /\ src["app"][i] # src["app"][j]
    /\ Len(result["app"]) < Len(rows["app"])

\* The rows of run r read from file f, in the order read.
RECURSIVE RowsFrom(_, _, _)
RowsFrom(r, f, k) ==
    IF k = 0 THEN <<>>
    ELSE RowsFrom(r, f, k - 1)
            \o (IF src[r][k] = f THEN <<rows[r][k]>> ELSE <<>>)

\* The rows of the files of order, one file after the other.
RECURSIVE Merged(_, _)
Merged(r, order) ==
    IF order = <<>> THEN <<>>
    ELSE RowsFrom(r, Head(order), Len(rows[r])) \o Merged(r, Tail(order))

\* The orders in which the files S can be scanned.
Orders(S) ==
    {o \in [1..Cardinality(S) -> S] : \A i, j \in DOMAIN o : i # j => o[i] # o[j]}

\* C7: each file is scanned from the fresh state, and the returned table is
\* the one that the per-file rows give when merged in any order of the
\* files and then deduplicated and sorted.
FileOrderIndependence ==
    /\ (pc = "lines" /\ raw = NoLine) => \A r \in Runs : st[r] = FreshState
    /\ pc = "done" =>
        \A r \in Runs : \A o \in Orders(Glob(dir)) :
            Finalize(CopyOf(r), Merged(r, o)) = result[r]

\* Two files have given different rows and the table is returned.
TwoFilesMerged ==
    /\ pc = "done"
    /\ \E i, j \in 1..Len(rows["page"]) :
        /\ src["page"][i] = "20240115.txt"
        /\ src["page"][j] = "notadate.txt"
        /\ RowLess("page", rows["page"][j], rows["page"][i])

\* C8: on a directory that does not exist the parse returns the empty table
\* and does not raise.
MissingDirectory ==
    ~dirExists =>
        /\ pc \in {"start", "done"}
        /\ \A r \in Runs : rows[r] = <<>>
        /\ pc = "done" => \A r \in Runs : result[r] = <<>>

\* The parse of a missing directory has returned.
MissingReturned == ~dirExists /\ pc = "done"

\* C9: a blank line read while picks are expected leaves expecting_picks
\* set and appends nothing; only a code line read while picks are expected
\* appends rows, and it clears expecting_picks; expecting_picks is set after
\* a line only if the line is a count line read with strategy and trade date
\* set or a blank line read while it was set.
OneShotPick ==
    [][ReadStep =>
        \A r \in Runs :
            /\ (st[r].expecting_picks /\ IsBlankLine(RawOf(r, raw')))
                 => st'[r].expecting_picks /\ rows'[r] = rows[r]
            /\ (IsCountLine(RawOf(r, raw')) /\ Ready(r))
                 => st'[r].expecting_picks /\ rows'[r] = rows[r]
            /\ rows'[r] # rows[r]
                 => st[r].expecting_picks /\ IsCodeLine(RawOf(r, raw'))
            /\ (st[r].expecting_picks /\ IsCodeLine(RawOf(r, raw')))
                 => ~st'[r].expecting_picks
            /\ st'[r].expecting_picks
                 => \/ IsCountLine(RawOf(r, raw')) /\ Ready(r)
                    \/ st[r].expecting_picks /\ IsBlankLine(RawOf(r, raw'))
      ]_vars

\* A second line of codes has been read after the pick line of the section
\* and has given no row.
SecondCodeLineIgnored ==
    /\ pc = "lines"
    /\ raw = <<"600000">>
    /\ by["page"] = ""
    /\ Ready("page")
    /\ rows["page"] =
         <<[date |-> "2024-01-15", strategy |-> <<"A">>, code |-> <<"000001">>],
           [date |-> "2024-01-15", strategy |-> <<"A">>, code |-> <<"600000">>]>>
    /\ n = 6

\* C10 as claimed: no row is appended by a line read while expecting_picks
\* was set by a count line that declares zero.
ZeroCountNoRecords ==
    [][(ReadStep /\ OnlyReports) =>
        \A r \in PlainRuns : by'[r] = "N0" => rows'[r] = rows[r]]_vars

\* C10 as amended: a count line has the same effect whether it declares
\* zero or not, and after a count line that declares zero a code line is
\* consumed as a pick line (only a code line appends rows).
CountValueIgnored ==
    [][ReadStep =>
        \A r \in Runs :
            /\ ScanLine(CopyOf(r), st[r], RawOf(r, <<"N0">>))
                 = ScanLine(CopyOf(r), st[r], RawOf(r, <<"N2">>))
            /\ by'[r] = "N0" =>
                 /\ rows'[r] # rows[r] => IsCodeLine(RawOf(r, raw'))
                 /\ IsCodeLine(RawOf(r, raw')) => ~st'[r].expecting_picks
      ]_vars

\* A code line read after a count line that declares zero has given rows.
ZeroCountPicked ==
    /\ pc = "lines"
    /\ by["page"] = "N0"
    /\ raw = <<"600000">>
    /\ rows["page"] # <<>>
    /\ rows["page"][Len(rows["page"])].code = <<"600000">>
    /\ src["page"][Len(rows["page"])] = fp

\* C11: a trade-date line read while no strategy is set leaves the scan
\* state of the run as it was and does not raise.
DateWithoutStrategyIgnored ==
    [][\A r \in PlainRuns :
        (/\ pc = "lines" /\ n' = n + 1 /\ OnlyReports
         /\ IsDateLine(RawOf(r, raw'))
         /\ ~Truthy(st[r].cur_strategy))
            => pc' = "lines" /\ st'[r] = st[r]
      ]_vars

\* The name between the brackets of a header line, without the blanks
\* around it: "A" in "选股结果 [A]", "B" in "==== 选股结果 [ B ] ====".
TrimmedName(l) ==
    IF \E i \in 1..Len(l) : l[i] = "H_A" THEN <<"A">> ELSE <<"B">>

ParserCopiesAgree ==
    (pc = "done" /\ OnlyReports) =>
        /\ result["app"] = result["page"]
        /\ result["app_log"] = result["page_log"]

ExpectingOnlyWhenReady ==
    [][\A r \in Runs :
        /\ st'[r].expecting_picks =>
              Truthy(st'[r].cur_strategy) /\ st'[r].cur_trade_date # NoDate
        /\ ReadStep =>
              /\ (IsCountLine(RawOf(r, raw')) /\ ~Ready(r)) =>
                    st'[r] = st[r] /\ rows'[r] = rows[r]
              /\ (raw # NoLine /\ IsCountLine(RawOf(r, raw)) /\ ~Ready(r)) =>
                    rows'[r] = rows[r]
      ]_vars

\* A count line has just been read after a header and before any trade
\* date: no picks are expected.
CountBeforeDate ==
    /\ pc = "lines"
    /\ raw = <<"N2">>
    /\ hdr = <<"A">>
    /\ tdate = NoDate
    /\ \A r \in Runs :
          /\ st[r] = [cur_strategy |-> <<"A">>, cur_trade_date |-> NoDate,
                      expecting_picks |-> FALSE]
          /\ rows[r] = <<>>
====
